---- MODULE Spec2Model ----
(***************************************************************************)
(* State-machine model of the realtime voice bridge of kos_zbot:           *)
(*   conversation/voice/processor.py  (AudioProcessor)                     *)
(*   conversation/voice/tools.py      (ToolManager)                        *)
(*                                                                         *)
(* The program is single-threaded asyncio code.  One step of the model is  *)
(* the code a task runs between two suspension points (awaits); a message  *)
(* handed to the transport is recorded in `sent` in the step that issues   *)
(* it.  Tasks: every connect() call, every process_audio() call, every     *)
(* cancel_response() call and the fire-and-forget task it creates.  The    *)
(* remote service and the caller of connect() are the environment.         *)
(***************************************************************************)
EXTENDS Integers, Sequences, FiniteSets, TLC

\* ------------------------------------------------------------------ bounds
\* What the environment (the caller of the bridge and the remote service) does
\* is bounded by a budget per kind of input.  Three environments are checked:
\*   Spec         every operation, two connect() calls
\*   SpecSession  every operation, one connect() call, longer event sequences
\*   SpecLoop     one connect() call and its receive loop alone, the longest
\*                event sequences
\* SpecConfig is the settings store alone.
MaxConnects == 2      \* Spec: connect() calls made by the caller
MaxEvents == 1        \* Spec: server events taken, over all connections
MaxToolCalls == 1     \* Spec: function-call events among them
MaxAudio == 1         \* Spec: process_audio() calls
MaxCancel == 1        \* Spec: cancel_response() calls
SessionEvents == 2    \* SpecSession: server events
SessionToolCalls == 1 \* SpecSession: function-call events among them
SessionAudio == 1     \* SpecSession: process_audio() calls
SessionCancel == 1    \* SpecSession: cancel_response() calls
LoopEvents == 4       \* SpecLoop: server events
LoopToolCalls == 1    \* SpecLoop: function-call events among them
MaxDevice == 1        \* SpecConfig: the audio devices have ids 0..MaxDevice
MaxLoads == 2         \* SpecConfig: load_config() calls

\* --------------------------------------------------------------- constants
NoConn == 0                       \* the None connection handle
Conns == 1..MaxConnects           \* the k-th connect() call opens connection k
NoSession == [conn |-> NoConn, src |-> "None"]

\* base64 digits are modelled by their values 0..63; B64Pad is '='
B64Pad == 64

\* payloads the server may put in response.audio.delta: "AAAA", "TWFu", and
\* "AAA", which is not valid base64 (its length is no multiple of four)
Deltas == { <<0, 0, 0, 0>>, <<19, 22, 5, 46>>, <<0, 0, 0>> }

\* audio chunks handed to process_audio
AudioChunks == { <<0, 0, 0>>, <<77>> }

\* a schema that does not publish the camera tool
ToolDefinitionsWithoutCamera == {"wave", "get_current_time"}

\* names published by get_tool_definitions
ToolDefinitions == {"wave", "get_current_time", "describe_surroundings"}

\* keys of the handlers dictionary of handle_tool_call
Handlers == {"wave", "get_current_time", "describe_surroundings"}

\* tool names the server may put in a function-call event
EventToolNames == Handlers \cup {"dance"}

VARIABLES
    connection,     \* AudioProcessor.connection: NoConn or a connection id
    session,        \* AudioProcessor.session
    connected,      \* AudioProcessor.connected (asyncio.Event): is_set()
    tm_connection,  \* ToolManager.connection
    conns,          \* transport state of each connection
    loop,           \* position of each connect() coroutine
    cancel_tasks,   \* tasks created by cancel_response and not yet run
    env,            \* environment: the inputs it may still make, by kind
    sent,           \* history: messages the receive loops handed to the
                    \*          transport, in order
    cancel_sent,    \* history: the last response.cancel handed to the transport
    signals,        \* history: signals emitted by each receive loop, in order
    evlog,          \* history: server events taken by each receive loop
    tool_results,   \* history: result of handle_tool_call, by call_id
    audio_result,   \* history: outcome of the last process_audio() call,
                    \*          with the append it handed to the transport
    cfg             \* the settings file, what load_config returned, and the
                    \*          position of the settings flow

bridge_vars == <<connection, session, connected, tm_connection, conns, loop,
                 cancel_tasks, env, sent, cancel_sent, signals, evlog,
                 tool_results, audio_result>>

vars == <<bridge_vars, cfg>>

\* ---------------------------------------------------------------- base64
\* a decoder that takes the low bits of the second digit where the high
\* bits belong
B64DecodeQuadLowBits(q) ==
    LET b1 == q[1] * 4 + (q[2] % 4)
        b2 == (q[2] % 16) * 16 + (q[3] \div 4)
        b3 == (q[3] % 4) * 64 + q[4]
    IN  IF q[3] = B64Pad THEN <<b1>>
        ELSE IF q[4] = B64Pad THEN <<b1, b2>>
        ELSE <<b1, b2, b3>>

\* base64.b64decode of one group of four digits
B64DecodeQuad(q) ==
    LET b1 == q[1] * 4 + (q[2] \div 16)
        b2 == (q[2] % 16) * 16 + (q[3] \div 4)
        b3 == (q[3] % 4) * 64 + q[4]
    IN  IF q[3] = B64Pad THEN <<b1>>
        ELSE IF q[4] = B64Pad THEN <<b1, b2>>
        ELSE <<b1, b2, b3>>

\* b64decode raises binascii.Error ("Incorrect padding") on other lengths
B64Valid(s) == Len(s) % 4 = 0

RECURSIVE B64Decode(_)
B64Decode(s) ==
    IF Len(s) < 4 THEN <<>>
    ELSE B64DecodeQuad(SubSeq(s, 1, 4)) \o B64Decode(SubSeq(s, 5, Len(s)))

\* base64.b64encode of at most three bytes
B64EncodeGroup(b) ==
    LET n  == Len(b)
        b1 == b[1]
        b2 == IF n >= 2 THEN b[2] ELSE 0
        b3 == IF n >= 3 THEN b[3] ELSE 0
    IN  << b1 \div 4,
           (b1 % 4) * 16 + (b2 \div 16),
           IF n >= 2 THEN (b2 % 16) * 4 + (b3 \div 64) ELSE B64Pad,
           IF n >= 3 THEN b3 % 64 ELSE B64Pad >>

RECURSIVE B64Encode(_)
B64Encode(b) ==
    IF Len(b) = 0 THEN <<>>
    ELSE IF Len(b) <= 3 THEN B64EncodeGroup(b)
    ELSE B64EncodeGroup(SubSeq(b, 1, 3)) \o B64Encode(SubSeq(b, 4, Len(b)))

\* ------------------------------------------------------------ bookkeeping
\* a send on a handle succeeds only while its transport is open
Live(c) == c # NoConn /\ conns[c] = "open"

Msg(c, t, cid, out, au, tl) ==
    [conn |-> c, type |-> t, call_id |-> cid, output |-> out,
     audio |-> au, tools |-> tl, live |-> Live(c)]

\* no message yet
NoMsg ==
    [conn |-> NoConn, type |-> "none", call_id |-> 0, output |-> <<>>,
     audio |-> <<>>, tools |-> {}, live |-> FALSE]

\* the outcome of one process_audio call; conn and audio describe the
\* append it handed to the transport, if any
AudioResult(o, c, au) == [outcome |-> o, conn |-> c, audio |-> au]

Signal(n, d) == [name |-> n, data |-> d]

Event(t, n, cid, d) == [type |-> t, name |-> n, call_id |-> cid, delta |-> d]

Running == {"connecting", "iter", "handler"}
Exited == {"returned", "raised", "cancelled"}

\* an exception leaves connect(); the handler position is kept in `stage`
Raise(lp, k) == [lp EXCEPT ![k].pc = "raised"]

\* leaving the `async with` block closes the connection
CloseOnExit(k) == [conns EXCEPT ![k] = IF @ = "open" THEN "closed_local" ELSE @]

\* --------------------------------------------------------- settings store
\* Python values: int, float (in hundredths), str and None
PyInt(i) == [ty |-> "int", n |-> i, s |-> ""]
PyFloat(h) == [ty |-> "float", n |-> h, s |-> ""]
PyStr(t) == [ty |-> "str", n |-> 0, s |-> t]
PyNone == [ty |-> "NoneType", n |-> 0, s |-> ""]

\* a dict is a function from its keys; {} has no key
EmptyDict == [key \in {} |-> PyNone]

DEFAULT_CONFIG ==
    [microphone_id |-> PyInt(1), speaker_id |-> PyInt(2),
     volume |-> PyFloat(35), environment |-> PyStr("default")]

\* the order in which json.dump writes the keys met here
KeyOrder == <<"microphone_id", "speaker_id", "volume", "environment", "note">>

\* JSON literals: a number is its integer part and the digits after the
\* point, a string is its text
JsonNumber(w, f) == [tok |-> "number", whole |-> w, frac |-> f, text |-> ""]
JsonString(t) == [tok |-> "string", whole |-> 0, frac |-> <<>>, text |-> t]
JsonNull == [tok |-> "null", whole |-> 0, frac |-> <<>>, text |-> ""]

\* json.dump of a value: an int has no point, a float is written with the
\* shortest digits that read back to it (float.__repr__), None is null
JsonEncode(v) ==
    IF v.ty = "int" THEN JsonNumber(v.n, <<>>)
    ELSE IF v.ty = "float"
    THEN LET r == v.n % 100
         IN  JsonNumber(v.n \div 100,
                        IF r % 10 = 0 THEN <<r \div 10>>
                                      ELSE <<r \div 10, r % 10>>)
    ELSE IF v.ty = "str" THEN JsonString(v.s)
    ELSE JsonNull

\* json.load of a literal: a number with a point is a float
JsonDecode(t) ==
    IF t.tok = "number"
    THEN IF t.frac = <<>>
         THEN PyInt(t.whole)
         ELSE PyFloat(t.whole * 100 + t.frac[1] * 10
                      + (IF Len(t.frac) > 1 THEN t.frac[2] ELSE 0))
    ELSE IF t.tok = "string" THEN PyStr(t.text)
    ELSE PyNone

\* json.dump(config, f, indent=4): the members of the object, in order
JsonDump(config) ==
    LET keys == SelectSeq(KeyOrder, LAMBDA key : key \in DOMAIN config)
    IN  [i \in DOMAIN keys |-> <<keys[i], JsonEncode(config[keys[i]])>>]

\* json.load(f) of an object: the last member of a name wins
JsonLoad(pairs) ==
    [key \in { pairs[i][1] : i \in DOMAIN pairs } |->
        LET last == CHOOSE i \in DOMAIN pairs :
                        /\ pairs[i][1] = key
                        /\ \A j \in DOMAIN pairs : pairs[j][1] = key => j <= i
        IN  JsonDecode(pairs[last][2])]

\* CONFIG_FILE: absent, not JSON, JSON that is not an object, or an object
File(kind, pairs) == [kind |-> kind, pairs |-> pairs]

\* what a settings file may hold for each key
StoredValues ==
    [microphone_id |-> {PyInt(3)},
     speaker_id |-> {PyInt(5)},
     volume |-> {PyFloat(50), PyFloat(100), PyFloat(35), PyInt(1)},
     environment |-> {PyStr("demo")},
     note |-> {PyStr("lab")}]

StoredDicts ==
    UNION { { d \in [keys -> UNION { StoredValues[key] : key \in keys }] :
                \A key \in keys : d[key] \in StoredValues[key] } :
            keys \in SUBSET DOMAIN StoredValues }

\* prompt_device_selection: the id of a device, or None when there is none
DeviceChoices == {PyNone} \cup { PyInt(i) : i \in 0..MaxDevice }

CfgIdle ==
    [file |-> File("missing", <<>>), stored |-> EmptyDict,
     result |-> EmptyDict, pc |-> "idle", how |-> "none", loads |-> 0]

\* ------------------------------------------------------------------- Init
\* AudioProcessor.__init__ and ToolManager.__init__; budget is what the
\* environment will do
InitBridge(budget) ==
    /\ env = budget
    /\ connection = NoConn
    /\ session = NoSession
    /\ connected = FALSE
    /\ tm_connection = NoConn
    /\ conns = [k \in Conns |-> "unopened"]
    /\ loop = [k \in Conns |-> [pc |-> "idle", stage |-> "none", call |-> 0]]
    /\ cancel_tasks = <<>>
    /\ sent = <<>>
    /\ cancel_sent = NoMsg
    /\ signals = [k \in Conns |-> <<>>]
    /\ evlog = [k \in Conns |-> <<>>]
    /\ tool_results = <<>>
    /\ audio_result = AudioResult("none", NoConn, <<>>)

\* the settings flow is not started
InitWith(budget) == InitBridge(budget) /\ cfg = CfgIdle

Init ==
    InitWith([connects |-> MaxConnects, events |-> MaxEvents,
              tools |-> MaxToolCalls, audio |-> MaxAudio, cancel |-> MaxCancel])

InitSession ==
    InitWith([connects |-> 1, events |-> SessionEvents,
              tools |-> SessionToolCalls, audio |-> SessionAudio,
              cancel |-> SessionCancel])

InitLoop ==
    InitWith([connects |-> 1, events |-> LoopEvents, tools |-> LoopToolCalls,
              audio |-> 0, cancel |-> 0])

\* ---------------------------------------------------------------- connect
\* a connect() that sets the readiness event before it has a connection
ConnectCallSetsReady(k) ==
    /\ env.connects > 0
    /\ loop[k].pc = "idle"
    /\ \A j \in Conns : j < k => loop[j].pc # "idle"
    /\ env' = [env EXCEPT !.connects = @ - 1]
    /\ loop' = [loop EXCEPT ![k].pc = "connecting"]
    /\ connected' = TRUE
    /\ UNCHANGED <<connection, session, tm_connection, conns,
                   cancel_tasks, cancel_sent, sent, signals, evlog,
                   tool_results, audio_result, cfg>>

\* connect() is called; the coroutine suspends in realtime.connect().__aenter__
ConnectCall(k) ==
    /\ env.connects > 0
    /\ loop[k].pc = "idle"
    /\ \A j \in Conns : j < k => loop[j].pc # "idle"
    /\ env' = [env EXCEPT !.connects = @ - 1]
    /\ loop' = [loop EXCEPT ![k].pc = "connecting"]
    /\ UNCHANGED <<connection, session, connected, tm_connection, conns,
                   cancel_tasks, cancel_sent, sent, signals, evlog,
                   tool_results, audio_result, cfg>>

\* the transport is up: lines 72-77 run without suspending
ConnectEstablished(k) ==
    /\ loop[k].pc = "connecting"
    /\ conns' = [conns EXCEPT ![k] = "open"]
    /\ connection' = k
    /\ connected' = TRUE
    /\ tm_connection' = k
    /\ loop' = [loop EXCEPT ![k].pc = "iter"]
    /\ UNCHANGED <<session, cancel_tasks, env, cancel_sent, sent, signals,
                   evlog, tool_results, audio_result, cfg>>

\* the transport cannot be established: connect() raises
ConnectFailed(k) ==
    /\ loop[k].pc = "connecting"
    /\ loop' = [loop EXCEPT ![k].pc = "raised"]
    /\ UNCHANGED <<connection, session, connected, tm_connection, conns,
                   cancel_tasks, env, cancel_sent, sent, signals, evlog,
                   tool_results, audio_result, cfg>>

\* ----------------------------------------------------------- receive loop
\* `async for event in conn` yields the next event of an open connection
CanRecv(k) ==
    /\ loop[k].pc = "iter"
    /\ conns[k] = "open"
    /\ env.events > 0

\* session.created: _handle_session_created up to `await conn.session.update`
RecvSessionCreated(k) ==
    /\ CanRecv(k)
    /\ env' = [env EXCEPT !.events = @ - 1]
    /\ evlog' = [evlog EXCEPT ![k] = Append(@,
            Event("session.created", "", 0, <<>>))]
    /\ session' = [conn |-> k, src |-> "conn.session"]
    /\ sent' = Append(sent,
                 Msg(k, "session.update", 0, <<>>, <<>>, ToolDefinitions))
    /\ loop' = [loop EXCEPT ![k].pc = "handler", ![k].stage = "created_sent"]
    /\ UNCHANGED <<connection, connected, tm_connection, conns, cancel_tasks,
                   cancel_sent, signals, tool_results, audio_result, cfg>>

\* session.update has been submitted: emit session_ready and take the next event
SessionUpdateDone(k) ==
    /\ loop[k].pc = "handler"
    /\ loop[k].stage = "created_sent"
    /\ signals' = [signals EXCEPT ![k] = Append(@,
            Signal("session_ready", <<>>))]
    /\ loop' = [loop EXCEPT ![k].pc = "iter", ![k].stage = "none"]
    /\ UNCHANGED <<connection, session, connected, tm_connection, conns,
                   cancel_tasks, env, cancel_sent, sent, evlog, tool_results,
                   audio_result, cfg>>

\* session.updated: self.session = event.session
RecvSessionUpdated(k) ==
    /\ CanRecv(k)
    /\ env' = [env EXCEPT !.events = @ - 1]
    /\ evlog' = [evlog EXCEPT ![k] = Append(@,
            Event("session.updated", "", 0, <<>>))]
    /\ session' = [conn |-> k, src |-> "event.session"]
    /\ UNCHANGED <<connection, connected, tm_connection, conns, loop,
                   cancel_tasks, cancel_sent, sent, signals, tool_results,
                   audio_result, cfg>>

\* response.audio.delta: _handle_audio_delta decodes and emits, or b64decode
\* raises and the exception leaves connect()
RecvAudioDelta(k, d) ==
    /\ CanRecv(k)
    /\ env' = [env EXCEPT !.events = @ - 1]
    /\ evlog' = [evlog EXCEPT ![k] = Append(@,
            Event("response.audio.delta", "", 0, d))]
    /\ IF B64Valid(d)
       THEN /\ signals' = [signals EXCEPT ![k] = Append(@,
               Signal("audio_to_play", B64Decode(d)))]
            /\ UNCHANGED <<loop, conns>>
       ELSE /\ loop' = Raise([loop EXCEPT ![k].stage = "audio_delta"], k)
            /\ conns' = CloseOnExit(k)
            /\ UNCHANGED signals
    /\ UNCHANGED <<connection, session, connected, tm_connection,
                   cancel_tasks, cancel_sent, sent, tool_results,
                   audio_result, cfg>>

\* response.done: emit processing_complete
RecvResponseDone(k) ==
    /\ CanRecv(k)
    /\ env' = [env EXCEPT !.events = @ - 1]
    /\ evlog' = [evlog EXCEPT ![k] = Append(@,
            Event("response.done", "", 0, <<>>))]
    /\ signals' = [signals EXCEPT ![k] = Append(@,
            Signal("processing_complete", <<>>))]
    /\ UNCHANGED <<connection, session, connected, tm_connection, conns, loop,
                   cancel_tasks, cancel_sent, sent, tool_results,
                   audio_result, cfg>>

\* a loop that treats the server's error event as fatal
RecvErrorRaises(k) ==
    /\ CanRecv(k)
    /\ env' = [env EXCEPT !.events = @ - 1]
    /\ evlog' = [evlog EXCEPT ![k] = Append(@, Event("error", "", 0, <<>>))]
    /\ loop' = Raise(loop, k)
    /\ conns' = CloseOnExit(k)
    /\ UNCHANGED <<connection, session, connected, tm_connection,
                   cancel_tasks, cancel_sent, sent, signals, tool_results,
                   audio_result, cfg>>

\* error: print(event.error)
RecvError(k) ==
    /\ CanRecv(k)
    /\ env' = [env EXCEPT !.events = @ - 1]
    /\ evlog' = [evlog EXCEPT ![k] = Append(@, Event("error", "", 0, <<>>))]
    /\ UNCHANGED <<connection, session, connected, tm_connection, conns, loop,
                   cancel_tasks, cancel_sent, sent, signals, tool_results,
                   audio_result, cfg>>

\* ------------------------------------------------------------ tool calls
\* a loop that starts the dispatcher as a task and goes on to the next event
SpawnToolCall == "iter"

\* line 90 awaits the dispatcher: the loop stays inside the handler
AwaitToolCall == "handler"

ItemMsg(cid, out) ==
    Msg(tm_connection, "conversation.item.create", cid, out, <<>>, {})

Apology(cid, reason) ==
    ItemMsg(cid, <<"Sorry, I had trouble processing the image: ", reason>>)

NewTurnMsg(k, cid) == Msg(k, "response.create", cid, <<>>, <<>>, {})

SetResult(cid, r) == [tool_results EXCEPT ![cid] = r]

\* _create_tool_response: nothing is sent without a connection; a send on a
\* closed connection raises.  okMsgs are the submissions when the send
\* succeeds, failMsgs the attempts made before the exception leaves connect()
HandlerSend(k, lp, okMsgs, failMsgs, okStage, okRes, failRes) ==
    IF tm_connection = NoConn
    THEN /\ loop' = [lp EXCEPT ![k].stage = okStage]
         /\ tool_results' = okRes
         /\ UNCHANGED <<sent, conns>>
    ELSE IF Live(tm_connection)
    THEN /\ sent' = sent \o okMsgs
         /\ loop' = [lp EXCEPT ![k].stage = okStage]
         /\ tool_results' = okRes
         /\ UNCHANGED conns
    ELSE /\ sent' = sent \o failMsgs
         /\ loop' = Raise(lp, k)
         /\ tool_results' = failRes
         /\ conns' = CloseOnExit(k)

\* a loop that requests the new turn before and after the dispatch
RequestNewTurnTwice(k, lp, cid) ==
    /\ sent' = sent \o <<NewTurnMsg(k, cid), NewTurnMsg(k, cid)>>
    /\ IF Live(k)
       THEN loop' = [lp EXCEPT ![k].stage = "create_sent"] /\ UNCHANGED conns
       ELSE loop' = Raise(lp, k) /\ conns' = CloseOnExit(k)

\* line 91: await conn.response.create()
RequestNewTurn(k, lp, cid) ==
    /\ sent' = Append(sent, NewTurnMsg(k, cid))
    /\ IF Live(k)
       THEN loop' = [lp EXCEPT ![k].stage = "create_sent"] /\ UNCHANGED conns
       ELSE loop' = Raise(lp, k) /\ conns' = CloseOnExit(k)

\* a dispatcher that indexes the handlers dictionary: an unknown name raises
\* KeyError, which leaves connect()
NotDispatchedRaises(k, lp, cid) ==
    /\ tool_results' = Append(tool_results, "raised")
    /\ loop' = Raise(lp, k)
    /\ conns' = CloseOnExit(k)
    /\ UNCHANGED sent

\* lines 60-62 and 74-76: without a connection or a handler, handle_tool_call
\* prints and returns False; line 91 follows
NotDispatched(k, lp, cid) ==
    /\ tool_results' = Append(tool_results, "False")
    /\ RequestNewTurn(k, lp, cid)

\* the output of the handlers that answer at once
ToolOutput(n) ==
    IF n = "wave" THEN <<"Waving my right hand">>
    ELSE <<"The current time is ", "%I:%M %p", ".">>

\* response.function_call_arguments.done: handle_tool_call up to its first await
RecvToolCall(k, n) ==
    LET cid == Len(tool_results) + 1
        lp  == [loop EXCEPT ![k] = [pc |-> AwaitToolCall, stage |-> "dispatch",
                                    call |-> cid]]
    IN  /\ CanRecv(k)
        /\ env.tools > 0
        /\ env' = [env EXCEPT !.events = @ - 1, !.tools = @ - 1]
        /\ evlog' = [evlog EXCEPT ![k] = Append(@,
                Event("response.function_call_arguments.done", n, cid, <<>>))]
        /\ IF tm_connection = NoConn \/ n \notin Handlers
           THEN NotDispatched(k, [lp EXCEPT ![k].pc = "handler"], cid)
           ELSE IF n = "describe_surroundings"
           THEN HandlerSend(k, lp,
                    <<ItemMsg(cid, <<"Let me look...">>)>>,
                    <<ItemMsg(cid, <<"Let me look...">>),
                      Apology(cid, "ConnectionClosed")>>,
                    "look_sent",
                    Append(tool_results, "pending"),
                    Append(tool_results, "raised"))
           ELSE HandlerSend(k, lp,
                    <<ItemMsg(cid, ToolOutput(n))>>,
                    <<ItemMsg(cid, ToolOutput(n))>>,
                    "item_sent",
                    Append(tool_results, "pending"),
                    Append(tool_results, "raised"))
        /\ UNCHANGED <<connection, session, connected, tm_connection,
                       cancel_tasks, cancel_sent, signals, audio_result, cfg>>

\* a handler without the try block: the failure leaves handle_tool_call
DescribeFailureEscapes(k, cid, reason) ==
    /\ loop' = Raise(loop, k)
    /\ tool_results' = SetResult(cid, "raised")
    /\ conns' = CloseOnExit(k)
    /\ UNCHANGED sent

\* lines 130-131: `except Exception as e` answers the call with an apology
\* that carries str(e); the handler then returns
DescribeFailure(k, cid, reason) ==
    HandlerSend(k, loop,
        <<Apology(cid, reason)>>,
        <<Apology(cid, reason)>>,
        "item_sent", tool_results, SetResult(cid, "raised"))

\* _handle_describe_surroundings after "Let me look...": capture_jpeg_cli
DescribeCapture(k, ok) ==
    LET cid == loop[k].call
    IN  /\ loop[k].pc \notin Exited
        /\ loop[k].stage = "look_sent"
        /\ IF ok
           THEN /\ loop' = [loop EXCEPT ![k].stage = "vision_wait"]
                /\ UNCHANGED <<sent, tool_results, conns>>
           ELSE DescribeFailure(k, cid, "Camera capture failed")
        /\ UNCHANGED <<connection, session, connected, tm_connection,
                       cancel_tasks, env, cancel_sent, signals, evlog,
                       audio_result, cfg>>

\* the vision request returns or fails
DescribeVision(k, ok) ==
    LET cid == loop[k].call
    IN  /\ loop[k].pc \notin Exited
        /\ loop[k].stage = "vision_wait"
        /\ IF ok
           THEN HandlerSend(k, loop,
                    <<ItemMsg(cid, <<"I see ", "description">>)>>,
                    <<ItemMsg(cid, <<"I see ", "description">>),
                      Apology(cid, "ConnectionClosed")>>,
                    "item_sent", tool_results, SetResult(cid, "raised"))
           ELSE DescribeFailure(k, cid, "vision request failed")
        /\ UNCHANGED <<connection, session, connected, tm_connection,
                       cancel_tasks, env, cancel_sent, signals, evlog,
                       audio_result, cfg>>

\* the handler has returned: handle_tool_call returns True, line 91 follows
ToolReturn(k) ==
    LET cid == loop[k].call
    IN  /\ loop[k].pc \notin Exited
        /\ loop[k].stage = "item_sent"
        /\ tool_results' = SetResult(cid, "True")
        /\ RequestNewTurn(k, loop, cid)
        /\ UNCHANGED <<connection, session, connected, tm_connection,
                       cancel_tasks, env, cancel_sent, signals, evlog,
                       audio_result, cfg>>

\* response.create has been submitted: back to `async for`
NewTurnDone(k) ==
    /\ loop[k].pc \notin Exited
    /\ loop[k].stage = "create_sent"
    /\ loop' = [loop EXCEPT ![k] =
                   [pc |-> "iter", stage |-> "none", call |-> 0]]
    /\ UNCHANGED <<connection, session, connected, tm_connection, conns,
                   cancel_tasks, env, cancel_sent, sent, signals, evlog,
                   tool_results, audio_result, cfg>>

\* ------------------------------------------------------ end of the stream
\* the remote side closes the stream
ServerClose(k) ==
    /\ conns[k] = "open"
    /\ conns' = [conns EXCEPT ![k] = "closed_ok"]
    /\ UNCHANGED <<connection, session, connected, tm_connection, loop,
                   cancel_tasks, env, cancel_sent, sent, signals, evlog,
                   tool_results, audio_result, cfg>>

\* the transport fails
TransportError(k) ==
    /\ conns[k] = "open"
    /\ conns' = [conns EXCEPT ![k] = "closed_err"]
    /\ UNCHANGED <<connection, session, connected, tm_connection, loop,
                   cancel_tasks, env, cancel_sent, sent, signals, evlog,
                   tool_results, audio_result, cfg>>

\* a loop that opens the connection again when the stream has ended
LoopEndReconnects(k) ==
    /\ loop[k].pc = "iter"
    /\ conns[k] \in {"closed_ok", "closed_err"}
    /\ loop' = [loop EXCEPT ![k].pc = "connecting"]
    /\ UNCHANGED <<connection, session, connected, tm_connection, conns,
                   cancel_tasks, env, cancel_sent, sent, signals, evlog,
                   tool_results, audio_result, cfg>>

\* `async for` ends on a clean close and raises on a failure; nothing else
\* is executed after the loop
LoopEnd(k) ==
    /\ loop[k].pc = "iter"
    /\ conns[k] \in {"closed_ok", "closed_err"}
    /\ loop' = [loop EXCEPT ![k].pc =
                   IF conns[k] = "closed_ok" THEN "returned" ELSE "raised"]
    /\ UNCHANGED <<connection, session, connected, tm_connection, conns,
                   cancel_tasks, env, cancel_sent, sent, signals, evlog,
                   tool_results, audio_result, cfg>>

\* the caller cancels the task that runs connect() at a suspension point
CancelConnect(k) ==
    /\ loop[k].pc \in Running
    /\ loop' = [loop EXCEPT ![k].pc = "cancelled"]
    /\ conns' = CloseOnExit(k)
    /\ UNCHANGED <<connection, session, connected, tm_connection,
                   cancel_tasks, env, cancel_sent, sent, signals, evlog,
                   tool_results, audio_result, cfg>>

\* ---------------------------------------------------------- process_audio
\* lines 118-120: encode and append on the handle read from self.connection;
\* None has no input_audio_buffer, and a closed connection raises on the send
ProcessAudioSend(b) ==
    /\ audio_result' =
           IF connection = NoConn THEN AudioResult("raised", NoConn, <<>>)
           ELSE AudioResult(IF Live(connection) THEN "sent" ELSE "send_failed",
                            connection, B64Encode(b))
    /\ UNCHANGED <<connection, session, connected, tm_connection, conns, loop,
                   cancel_tasks, sent, cancel_sent, signals, evlog,
                   tool_results, cfg>>

\* process_audio without the early return
ProcessAudioNoReturn(b) == ProcessAudioSend(b)

\* lines 114-116: the readiness check fails
ProcessAudioNotReady(b) ==
    /\ audio_result' = AudioResult("not_connected", NoConn, <<>>)
    /\ UNCHANGED <<connection, session, connected, tm_connection, conns, loop,
                   cancel_tasks, sent, cancel_sent, signals, evlog,
                   tool_results, cfg>>

ProcessAudio(b) ==
    /\ env.audio > 0
    /\ env' = [env EXCEPT !.audio = @ - 1]
    /\ IF ~connected THEN ProcessAudioNotReady(b) ELSE ProcessAudioSend(b)

\* -------------------------------------------------------- cancel_response
\* a cancel_response that awaits the send instead of creating a task
CancelResponseAwaited ==
    /\ env.cancel > 0
    /\ env' = [env EXCEPT !.cancel = @ - 1]
    /\ cancel_sent' = IF connection # NoConn
                      THEN Msg(connection, "response.cancel",
                               0, <<>>, <<>>, {})
                      ELSE cancel_sent
    /\ UNCHANGED <<connection, session, connected, tm_connection, conns, loop,
                   sent, cancel_tasks, signals, evlog, tool_results,
                   audio_result, cfg>>

\* create_task(self.connection.send(...)) when a connection exists
CancelResponse ==
    /\ env.cancel > 0
    /\ env' = [env EXCEPT !.cancel = @ - 1]
    /\ cancel_tasks' = IF connection # NoConn
                       THEN Append(cancel_tasks, connection)
                       ELSE cancel_tasks
    /\ UNCHANGED <<connection, session, connected, tm_connection, conns, loop,
                   sent, cancel_sent, signals, evlog, tool_results,
                   audio_result, cfg>>

\* the event loop runs the created task
CancelTaskRun ==
    /\ cancel_tasks # <<>>
    /\ cancel_sent' = Msg(Head(cancel_tasks), "response.cancel",
                           0, <<>>, <<>>, {})
    /\ cancel_tasks' = Tail(cancel_tasks)
    /\ UNCHANGED <<connection, session, connected, tm_connection, conns, loop,
                   env, sent, signals, evlog, tool_results, audio_result, cfg>>

\* ------------------------------------------------- settings store: steps
\* a settings file as a run of the program finds it
InitConfig ==
    /\ InitBridge([connects |-> 0, events |-> 0, tools |-> 0,
                   audio |-> 0, cancel |-> 0])
    /\ \/ \E kind \in {"missing", "corrupt", "not_object"} :
              cfg = [CfgIdle EXCEPT !.file = File(kind, <<>>),
                                    !.pc = "start", !.loads = MaxLoads]
       \/ \E d \in StoredDicts :
              cfg = [CfgIdle EXCEPT !.file = File("object", JsonDump(d)),
                                    !.stored = d,
                                    !.pc = "start", !.loads = MaxLoads]

\* a merge in which the defaults replace what the file holds
MergeDefaultsOverStored(config) ==
    [key \in DOMAIN config \cup DOMAIN DEFAULT_CONFIG |->
        IF key \in DOMAIN DEFAULT_CONFIG THEN DEFAULT_CONFIG[key]
                                         ELSE config[key]]

\* lines 99-101: every key of DEFAULT_CONFIG the file lacks gets its default
MergeDefaults(config) ==
    [key \in DOMAIN config \cup DOMAIN DEFAULT_CONFIG |->
        IF key \in DOMAIN config THEN config[key] ELSE DEFAULT_CONFIG[key]]

\* load_config, lines 95-103: the file holds an object
LoadConfigRead ==
    /\ cfg.pc \in {"start", "saved"}
    /\ cfg.loads > 0
    /\ cfg.file.kind = "object"
    /\ cfg' = [cfg EXCEPT !.result = MergeDefaults(JsonLoad(cfg.file.pairs)),
                          !.pc = "loaded", !.how = "read", !.loads = @ - 1]
    /\ UNCHANGED bridge_vars

\* load_config, lines 91-93 and 105-108: no file, or json.load raises, or the
\* value read takes no item assignment; create_config writes the defaults
\* with the devices chosen and returns them
LoadConfigCreate(mic, spk) ==
    /\ cfg.pc \in {"start", "saved"}
    /\ cfg.loads > 0
    /\ cfg.file.kind # "object"
    /\ LET config == [DEFAULT_CONFIG EXCEPT !.microphone_id = mic,
                                            !.speaker_id = spk]
       IN  cfg' = [cfg EXCEPT !.file = File("object", JsonDump(config)),
                              !.stored = config, !.result = config,
                              !.pc = "loaded", !.how = "created",
                              !.loads = @ - 1]
    /\ UNCHANGED bridge_vars

\* update_config after its load_config(): lines 117-133
UpdateConfig(mic, spk) ==
    /\ cfg.pc = "loaded"
    /\ LET c1 == IF mic # PyNone
                 THEN [cfg.result EXCEPT !.microphone_id = mic]
                 ELSE cfg.result
           c2 == IF spk # PyNone THEN [c1 EXCEPT !.speaker_id = spk] ELSE c1
       IN  cfg' = [cfg EXCEPT !.file = File("object", JsonDump(c2)),
                              !.stored = c2, !.result = c2, !.pc = "saved"]
    /\ UNCHANGED bridge_vars

ConfigStep ==
    \/ LoadConfigRead
    \/ \E mic \in DeviceChoices, spk \in DeviceChoices :
           LoadConfigCreate(mic, spk)
    \/ \E mic \in DeviceChoices, spk \in DeviceChoices :
           UpdateConfig(mic, spk)

\* ------------------------------------------------------------------- Next
\* the steps of the connect() coroutines and of the remote service
LoopStep ==
    \/ \E k \in Conns : ConnectCall(k)
    \/ \E k \in Conns : ConnectEstablished(k)
    \/ \E k \in Conns : ConnectFailed(k)
    \/ \E k \in Conns : RecvSessionCreated(k)
    \/ \E k \in Conns : SessionUpdateDone(k)
    \/ \E k \in Conns : RecvSessionUpdated(k)
    \/ \E k \in Conns, d \in Deltas : RecvAudioDelta(k, d)
    \/ \E k \in Conns : RecvResponseDone(k)
    \/ \E k \in Conns : RecvError(k)
    \/ \E k \in Conns, n \in EventToolNames : RecvToolCall(k, n)
    \/ \E k \in Conns, ok \in BOOLEAN : DescribeCapture(k, ok)
    \/ \E k \in Conns, ok \in BOOLEAN : DescribeVision(k, ok)
    \/ \E k \in Conns : ToolReturn(k)
    \/ \E k \in Conns : NewTurnDone(k)
    \/ \E k \in Conns : ServerClose(k)
    \/ \E k \in Conns : TransportError(k)
    \/ \E k \in Conns : LoopEnd(k)
    \/ \E k \in Conns : CancelConnect(k)

\* the steps of the other tasks
CallerStep ==
    \/ \E b \in AudioChunks : ProcessAudio(b)
    \/ CancelResponse
    \/ CancelTaskRun

Next == LoopStep \/ CallerStep

Spec == Init /\ [][Next]_vars

SpecSession == InitSession /\ [][Next]_vars

SpecLoop == InitLoop /\ [][LoopStep]_vars

SpecConfig == InitConfig /\ [][ConfigStep]_vars

\* =========================================================== properties
Front(q) == SubSeq(q, 1, Len(q) - 1)

ItemType == "conversation.item.create"
ToolCallType == "response.function_call_arguments.done"

\* the function-call events taken so far
ToolEvents ==
    UNION { { evlog[k][i] : i \in DOMAIN evlog[k] } : k \in Conns }

CallEvent(c) ==
    CHOOSE e \in ToolEvents : e.type = ToolCallType /\ e.call_id = c

\* response items carrying call_id c that reached the session
ItemsFor(c) ==
    { i \in DOMAIN sent :
        sent[i].type = ItemType /\ sent[i].call_id = c /\ sent[i].live }

\* connection k has taken session.created (whose handling submits the
\* configuration) and, after it, session.updated
Negotiated(k) ==
    \E i, j \in DOMAIN evlog[k] :
        /\ i < j
        /\ evlog[k][i].type = "session.created"
        /\ evlog[k][j].type = "session.updated"

\* every connect() call made so far has returned, raised or been cancelled
AllExited ==
    /\ \E k \in Conns : loop[k].pc \in Exited
    /\ \A k \in Conns : loop[k].pc \in Exited \cup {"idle"}

\* C1 (as claimed): every invocation handle_tool_call has dealt with, whether
\* its name is registered or not, has exactly one function_call_output item
\* with its call_id submitted to the session.
C1_ExactlyOneResponseItem ==
    \A c \in DOMAIN tool_results :
        tool_results[c] \in {"True", "False"} => Cardinality(ItemsFor(c)) = 1

\* C2 (as claimed): when the new turn is requested for a call whose tool name
\* is not registered, the dispatcher has returned a failure marker and a
\* response item for that call_id was submitted before the request.
C2_UnknownToolAnsweredBeforeNewTurn ==
    \A i \in DOMAIN sent :
        (/\ sent[i].type = "response.create"
         /\ CallEvent(sent[i].call_id).name \notin Handlers)
        => /\ tool_results[sent[i].call_id] = "False"
           /\ \E j \in 1..(i - 1) :
                  sent[j].type = ItemType /\ sent[j].call_id = sent[i].call_id

\* C3 (as claimed): a process_audio call hands an append to a connection only
\* after that connection's negotiation has completed; any earlier call is
\* the "not connected" no-op.
C3_AppendOnlyWhenNegotiated ==
    \/ audio_result.outcome \in {"none", "not_connected"}
    \/ /\ audio_result.conn # NoConn
       /\ Negotiated(audio_result.conn)

\* C4 (as claimed): when session_ready has been emitted on a connection, the
\* session.created -> configuration -> session.updated sequence has occurred
\* on it; session_ready never precedes the receipt of session.updated.
C4_ReadyOnlyAfterSessionUpdated ==
    \A k \in Conns :
        (\E i \in DOMAIN signals[k] : signals[k][i].name = "session_ready")
        => Negotiated(k)

\* C5 (as claimed): while a connect() call made after an earlier call exited
\* cleanly is still establishing its transport, and no other call is running,
\* the readiness flag is false.
C5_ReadinessResetOnReconnect ==
    \A k \in Conns :
        (/\ loop[k].pc = "connecting"
         /\ \E j \in Conns : loop[j].pc = "returned"
         /\ \A j \in Conns \ {k} : loop[j].pc \notin Running)
        => ~connected

\* the bytes of the payloads in Deltas, from RFC 4648: "AAAA" is three zero
\* bytes and "TWFu" is "Man"
DecodedAudio(d) ==
    IF d = <<0, 0, 0, 0>> THEN <<0, 0, 0>> ELSE <<77, 97, 110>>

\* the signal an event calls for
SignalsFor(e) ==
    IF e.type = "session.created" THEN <<Signal("session_ready", <<>>)>>
    ELSE IF e.type = "response.audio.delta"
    THEN <<Signal("audio_to_play", DecodedAudio(e.delta))>>
    ELSE IF e.type = "response.done"
    THEN <<Signal("processing_complete", <<>>)>>
    ELSE <<>>

RECURSIVE ExpectedSignals(_)
ExpectedSignals(es) ==
    IF es = <<>> THEN <<>>
    ELSE SignalsFor(Head(es)) \o ExpectedSignals(Tail(es))

\* the events whose handling has finished: all but the one the loop is
\* still inside, or was inside when an exception or a cancellation ended it
Handled(k) ==
    IF loop[k].stage # "none" THEN Front(evlog[k]) ELSE evlog[k]

\* C6: the signals a receive loop has emitted are exactly those of the events
\* it has handled, one per session.created, response.audio.delta (with the
\* decoded bytes) and response.done, in the order of the events.
C6_SignalsFollowEvents ==
    \A k \in Conns : signals[k] = ExpectedSignals(Handled(k))

C6_Witness ==
    /\ evlog[1] = << Event("session.created", "", 0, <<>>),
                     Event("session.updated", "", 0, <<>>),
                     Event("response.audio.delta", "", 0, <<0, 0, 0, 0>>),
                     Event("response.done", "", 0, <<>>) >>
    /\ signals[1] = << Signal("session_ready", <<>>),
                       Signal("audio_to_play", <<0, 0, 0>>),
                       Signal("processing_complete", <<>>) >>

\* the loop of connection k is between taking a function-call event and
\* issuing response.create for it
InToolCall(k) ==
    /\ loop[k].pc \notin Exited
    /\ loop[k].stage \in {"look_sent", "vision_wait", "item_sent"}

\* C7: while a receive loop is inside a tool call, no step of any task makes
\* it take another server event or emit a signal.
C7_ToolCallSerialized ==
    [][\A k \in Conns :
          InToolCall(k) => evlog'[k] = evlog[k] /\ signals'[k] = signals[k]]_vars

\* a tool call waits for the vision service while process_audio has appended
\* a chunk and a cancel task has run
C7_Witness ==
    /\ InToolCall(1)
    /\ loop[1].stage = "vision_wait"
    /\ audio_result.outcome = "sent"
    /\ cancel_sent.type = "response.cancel"
    /\ env.events > 0

\* C8 (as claimed): at most one connection is open inside a running
\* connect() call at any time.
C8_AtMostOneLiveSession ==
    Cardinality({ k \in Conns :
                    loop[k].pc \in {"iter", "handler"} /\ conns[k] = "open" }) <= 1

\* C9 (as claimed): once every connect() call has exited, a process_audio call
\* hands nothing to a connection and a cancel_response call creates no task.
C9_NothingSubmittedAfterExit ==
    [][AllExited =>
          /\ env'.audio < env.audio => audio_result'.conn = NoConn
          /\ Len(cancel_tasks') <= Len(cancel_tasks)]_vars

\* C10: a process_audio call made while the readiness flag is false ends in
\* the same step as "not connected" and changes nothing else: nothing is
\* sent, no task is created, connection, session and the flag keep their values.
C10_NotReadyIsNoOp ==
    [][(~connected /\ env'.audio < env.audio) =>
          /\ audio_result' = AudioResult("not_connected", NoConn, <<>>)
          /\ UNCHANGED <<connection, session, connected, tm_connection, conns,
                         loop, cancel_tasks, sent, cancel_sent, signals, evlog,
                         tool_results>>]_vars

\* process_audio was rejected while connect() was still establishing the
\* transport
C10_Witness ==
    /\ audio_result.outcome = "not_connected"
    /\ loop[1].pc = "connecting"
    /\ ~connected

\* C11: handle_tool_call on a name that is not registered does not raise and
\* returns False, and it returns False for no registered name.
C11_UnknownToolReturnsFalse ==
    \A c \in DOMAIN tool_results :
        IF CallEvent(c).name \in {"wave", "get_current_time",
                                  "describe_surroundings"}
        THEN tool_results[c] # "False"
        ELSE tool_results[c] = "False"

\* "dance" was dispatched, False came back and the loop went on
C11_Witness ==
    /\ tool_results = <<"False">>
    /\ CallEvent(1).name = "dance"
    /\ loop[1].pc = "iter"
    /\ loop[1].stage = "none"

\* a step of loop k out of stage st that is neither a cancellation, nor a
\* successful capture, nor the submission of a description
C12_FailureStep(k, st) ==
    /\ loop[k].stage = st
    /\ loop'[k] # loop[k]
    /\ loop'[k].pc # "cancelled"
    /\ loop'[k].stage # "vision_wait"
    /\ ~ (/\ Len(sent') > Len(sent)
          /\ sent'[Len(sent) + 1].output[1] = "I see ")

C12_ApologySubmitted(k, reason) ==
    /\ loop'[k] = [loop[k] EXCEPT !.stage = "item_sent"]
    /\ tool_results' = tool_results
    /\ Len(sent') = Len(sent) + 1
    /\ Front(sent') = sent
    /\ LET m == sent'[Len(sent')]
       IN  /\ m.type = ItemType
           /\ m.call_id = loop[k].call
           /\ m.conn = tm_connection
           /\ m.live
           /\ m.output =
                  <<"Sorry, I had trouble processing the image: ", reason>>

\* C12: while the connection is open, a failed camera capture or a failed
\* vision request in describe_surroundings is answered with one item that
\* carries the call_id and an apology naming the failure; the loop is not
\* left, handle_tool_call then returns True and response.create is issued.
C12_DescribeFailureIsCaught ==
    [][\A k \in Conns :
        /\ (C12_FailureStep(k, "look_sent") /\ Live(tm_connection))
               => C12_ApologySubmitted(k, "Camera capture failed")
        /\ (C12_FailureStep(k, "vision_wait") /\ Live(tm_connection))
               => C12_ApologySubmitted(k, "vision request failed")
        /\ (/\ loop[k].stage = "item_sent"
            /\ loop'[k] # loop[k]
            /\ loop'[k].pc # "cancelled")
               => /\ tool_results' = SetResult(loop[k].call, "True")
                  /\ sent' = Append(sent, NewTurnMsg(k, loop[k].call))]_vars

\* the capture failed, the apology was submitted, the call returned True, a
\* new turn was requested and the loop took a later event
C12_Witness ==
    /\ tool_results = <<"True">>
    /\ Len(evlog[1]) >= 2
    /\ evlog[1][1].type = ToolCallType
    /\ evlog[1][1].name = "describe_surroundings"
    /\ evlog[1][2].type = "response.done"
    /\ \E i, j \in DOMAIN sent :
          /\ i < j
          /\ sent[i].live
          /\ sent[i].output = <<"Sorry, I had trouble processing the image: ",
                                "Camera capture failed">>
          /\ sent[j].type = "response.create"
          /\ sent[j].live
    /\ signals[1] # <<>>

\* C13: a closed stream ends the receive loop, connect() returning on a clean
\* close and raising on a failure; a connect() that has ended does nothing
\* more, and a connection is opened only by a connect() call, once, so no
\* more connections are opened than connect() was called.
C13_StreamEndPropagates ==
    [][\A k \in Conns :
        /\ (conns'[k] = "open" /\ conns[k] # "open")
               => conns[k] = "unopened" /\ loop[k].pc = "connecting"
        /\ loop[k].pc \in Exited
               => loop'[k] = loop[k] /\ evlog'[k] = evlog[k]
        /\ (/\ loop[k].pc = "iter"
            /\ conns[k] \in {"closed_ok", "closed_err"}
            /\ <<loop[k], evlog[k]>>' # <<loop[k], evlog[k]>>)
               => /\ evlog'[k] = evlog[k]
                  /\ loop'[k].pc \in
                        {IF conns[k] = "closed_ok" THEN "returned"
                                                    ELSE "raised",
                         "cancelled"}
        /\ loop'[k].pc = "returned" => conns'[k] = "closed_ok"
        /\ Cardinality({j \in Conns : conns'[j] # "unopened"})
               <= Cardinality({j \in Conns : loop'[j].pc # "idle"})]_vars

\* the transport failed after the loop had taken an event, and connect()
\* raised
C13_Witness ==
    /\ conns[1] = "closed_err"
    /\ loop[1].pc = "raised"
    /\ loop[1].stage = "none"
    /\ evlog[1] # <<>>

\* C14: cancel_response can be called in every state; without a connection
\* it changes nothing, with one it only adds the task that will submit
\* response.cancel: nothing is sent and nothing of the loop is touched or
\* waited for in the call itself.
C14_CancelOnlySchedules ==
    [][/\ env.cancel > 0 => ENABLED CancelResponse
       /\ env'.cancel # env.cancel =>
            /\ cancel_tasks' = IF connection = NoConn
                               THEN cancel_tasks
                               ELSE Append(cancel_tasks, connection)
            /\ UNCHANGED <<connection, session, connected, tm_connection,
                           conns, loop, sent, cancel_sent, signals, evlog,
                           tool_results, audio_result>>]_vars

\* a cancellation is scheduled and not yet submitted while the loop is
\* suspended inside the vision request of a tool handler
C14_Witness ==
    /\ env.cancel = 0
    /\ cancel_tasks = <<1>>
    /\ cancel_sent = NoMsg
    /\ loop[1].pc = "handler"
    /\ loop[1].stage = "vision_wait"

\* C15: taking the server's error event leaves the loop where it was, ready
\* for the next event, and changes neither the readiness flag, nor the
\* connection handles, nor the connection; no signal is emitted and nothing
\* is submitted.
C15_ErrorEventIsNotFatal ==
    [][\A k \in Conns :
        (/\ Len(evlog'[k]) = Len(evlog[k]) + 1
         /\ evlog'[k][Len(evlog'[k])].type = "error")
            => /\ loop' = loop
               /\ loop[k].pc = "iter"
               /\ UNCHANGED <<connection, connected, tm_connection, session,
                              conns, signals, sent, tool_results>>]_vars

\* an error event was taken and the event after it was handled
C15_Witness ==
    /\ Len(evlog[1]) = 2
    /\ evlog[1][1].type = "error"
    /\ evlog[1][2].type = "response.done"
    /\ signals[1] = <<Signal("processing_complete", <<>>)>>
    /\ loop[1].pc = "iter"
    /\ conns[1] = "open"

\* the four settings of the program
C16_Keys == {"microphone_id", "speaker_id", "volume", "environment"}

C16_Demo ==
    [microphone_id |-> PyInt(3), speaker_id |-> PyInt(5),
     volume |-> PyFloat(50), environment |-> PyStr("demo")]

C16_DemoWithoutVolume ==
    [microphone_id |-> PyInt(3), speaker_id |-> PyInt(5),
     environment |-> PyStr("demo")]

\* C16: load_config of a file that holds an object returns the stored value
\* of every key of the file and the DEFAULT_CONFIG value of every one of the
\* four settings the file lacks; a complete record comes back as written,
\* and a file without "volume" comes back with volume 0.35 and its other
\* fields.
C16_LoadFillsDefaults ==
    (cfg.pc = "loaded" /\ cfg.how = "read") =>
        /\ DOMAIN cfg.result = DOMAIN cfg.stored \cup C16_Keys
        /\ \A key \in DOMAIN cfg.stored : cfg.result[key] = cfg.stored[key]
        /\ \A key \in C16_Keys \ DOMAIN cfg.stored :
               cfg.result[key] = DEFAULT_CONFIG[key]
        /\ C16_Keys \subseteq DOMAIN cfg.stored => cfg.result = cfg.stored
        /\ cfg.stored = C16_DemoWithoutVolume =>
               cfg.result = [microphone_id |-> PyInt(3),
                             speaker_id |-> PyInt(5),
                             volume |-> PyFloat(35),
                             environment |-> PyStr("demo")]

\* the file without "volume" has been loaded
C16_Witness ==
    /\ cfg.pc = "loaded"
    /\ cfg.how = "read"
    /\ cfg.stored = C16_DemoWithoutVolume
    /\ cfg.file.kind = "object"
    /\ Len(cfg.file.pairs) = 3
    /\ cfg.result.volume = PyFloat(35)

\* the response.create requests issued for call c
C17_NewTurnsFor(c) ==
    { i \in DOMAIN sent :
        sent[i].type = "response.create" /\ sent[i].call_id = c }

\* C17: a function-call event whose dispatch has returned has exactly one
\* response.create, issued after every response item of its call_id; a call
\* still in its handler, or left by an exception, has none; and there is no
\* response.create that does not belong to a function-call event.
C17_OneNewTurnPerToolCall ==
    /\ \A c \in DOMAIN tool_results :
          /\ tool_results[c] \in {"True", "False"}
                 => Cardinality(C17_NewTurnsFor(c)) = 1
          /\ tool_results[c] \in {"pending", "raised"}
                 => C17_NewTurnsFor(c) = {}
          /\ \A i \in C17_NewTurnsFor(c), j \in DOMAIN sent :
                 (sent[j].type = ItemType /\ sent[j].call_id = c) => j < i
    /\ \A i \in DOMAIN sent :
          sent[i].type = "response.create" =>
              /\ sent[i].call_id \in DOMAIN tool_results
              /\ \E k \in Conns : \E e \in DOMAIN evlog[k] :
                    /\ evlog[k][e].type = ToolCallType
                    /\ evlog[k][e].call_id = sent[i].call_id
                    /\ sent[i].conn = k

\* describe_surroundings submitted its two items, returned, the new turn was
\* requested and other events were handled without a further request
C17_Witness ==
    /\ tool_results = <<"True">>
    /\ Len(evlog[1]) >= 3
    /\ Cardinality(ItemsFor(1)) = 2
    /\ Cardinality(C17_NewTurnsFor(1)) = 1
    /\ sent[Len(sent)].type = "response.create"
    /\ loop[1].pc = "iter"

\* C18: while the receive loop of a connection attempt runs, both
\* AudioProcessor.connection and ToolManager.connection are that attempt's
\* connection, and every response item is submitted on the connection that
\* delivered its function-call event.
C18_HandleFixedWhileLoopRuns ==
    /\ \A k \in Conns :
          loop[k].pc \in {"iter", "handler"}
              => connection = k /\ tm_connection = k
    /\ \A i \in DOMAIN sent :
          sent[i].type = ItemType =>
              \E e \in DOMAIN evlog[sent[i].conn] :
                  /\ evlog[sent[i].conn][e].type = ToolCallType
                  /\ evlog[sent[i].conn][e].call_id = sent[i].call_id

\* the configurations submitted so far
C19_Published ==
    { sent[i].tools : i \in { j \in DOMAIN sent :
                                 sent[j].type = "session.update" } }

\* C19: every configuration the bridge submits publishes the same tool
\* names, and these are the names with a handler: a call of a published name
\* is dispatched to its handler and a call of any other name returns False.
C19_PublishedToolsHaveHandlers ==
    /\ Cardinality(C19_Published) <= 1
    /\ \A tools \in C19_Published :
          /\ tools = Handlers
          /\ \A c \in DOMAIN tool_results :
                CallEvent(c).name \in tools <=> tool_results[c] # "False"

\* two configurations were submitted and a call of a published name was
\* handled
C19_Witness ==
    /\ Cardinality({ i \in DOMAIN sent : sent[i].type = "session.update" }) = 2
    /\ tool_results = <<"True">>
    /\ CallEvent(1).name = "describe_surroundings"

\* C20: when the readiness event is set the connection handle is set; while a
\* receive loop runs ToolManager.connection is set; so process_audio never
\* uses a missing handle after its readiness check, and no call of a
\* registered tool takes the 'No connection available' return of
\* handle_tool_call.
C20_HandlesSetWhenUsed ==
    /\ connected => connection # NoConn
    /\ \A k \in Conns :
          loop[k].pc \in {"iter", "handler"} => tm_connection # NoConn
    /\ audio_result.outcome # "raised"
    /\ audio_result.outcome \in {"sent", "send_failed"}
           => audio_result.conn # NoConn
    /\ \A c \in DOMAIN tool_results :
          CallEvent(c).name \in Handlers => tool_results[c] # "False"

\* audio was appended after the readiness check and a tool call was
\* dispatched to its handler
C20_Witness ==
    /\ connected
    /\ audio_result.outcome = "sent"
    /\ audio_result.conn = 1
    /\ tool_results = <<"True">>
    /\ CallEvent(1).name \in Handlers

====
